---- MODULE Spec2Model ----
(***************************************************************************)
(* Pick settlement (results_updater.py) and the pick store it shares with  *)
(* the performance reporter (performance_reporter.py).                     *)
(*                                                                         *)
(* Representation.                                                         *)
(*   - A Python str is a sequence of one-character strings, so that `in`,  *)
(*     split, rsplit, float() and f-string formatting are computed.        *)
(*   - An optional value (JSON null / Python None) is <<>>, a present      *)
(*     value v is <<v>>.                                                   *)
(*   - A 'YYYY-MM-DD' date string is the triple <<y, m, d>> of its fields; *)
(*     strptime validates the fields against the calendar.                 *)
(*   - Decimals are fixed point: odds and profit_loss in hundredths, a     *)
(*     spread in tenths; stake and scores are whole numbers.               *)
(***************************************************************************)
EXTENDS Integers, Sequences, FiniteSets, TLC

None == <<>>
Some(v) == <<v>>

(* Python truthiness of an optional number: None and 0 are falsy. *)
Truthy(opt) == opt # None /\ opt[1] # 0

(***************************************************************************)
(* str operations                                                          *)
(***************************************************************************)

(* sub in s *)
Contains(sub, s) ==
    \E k \in 0..(Len(s) - Len(sub)) : SubSeq(s, k + 1, k + Len(sub)) = sub

(* positions at which sep occurs in s *)
Occurrences(sep, s) ==
    { k \in 1..(Len(s) - Len(sep) + 1) : SubSeq(s, k, k + Len(sep) - 1) = sep }

SetMin(S) == CHOOSE x \in S : \A y \in S : x <= y
SetMax(S) == CHOOSE x \in S : \A y \in S : x >= y

(* s.split(sep)[0] *)
SplitFirst(s, sep) ==
    IF Occurrences(sep, s) = {} THEN s
    ELSE SubSeq(s, 1, SetMin(Occurrences(sep, s)) - 1)

(* s.rsplit(' ', 1): a list of one or two strings *)
RSplit1(s) ==
    LET at == Occurrences(<<" ">>, s)
    IN  IF at = {} THEN <<s>>
        ELSE <<SubSeq(s, 1, SetMax(at) - 1), SubSeq(s, SetMax(at) + 1, Len(s))>>

Digits == <<"0", "1", "2", "3", "4", "5", "6", "7", "8", "9">>

IsDigit(c) == \E k \in 1..10 : Digits[k] = c
DigitVal(c) == (CHOOSE k \in 1..10 : Digits[k] = c) - 1

(* value of a non-empty string of digits *)
RECURSIVE DigitsVal(_)
DigitsVal(s) ==
    IF Len(s) = 0 THEN 0
    ELSE 10 * DigitsVal(SubSeq(s, 1, Len(s) - 1)) + DigitVal(s[Len(s)])

AllDigits(s) == Len(s) > 0 /\ \A k \in 1..Len(s) : IsDigit(s[k])

(* f"{n}" for an int n >= 0 *)
RECURSIVE FormatInt(_)
FormatInt(n) ==
    IF n < 10 THEN <<Digits[n + 1]>>
    ELSE FormatInt(n \div 10) \o <<Digits[(n % 10) + 1]>>

(* float(s) for the decimal literals  [+-]digits[.digit] ; any other string
   raises ValueError.  The value is in tenths. *)
FloatStr(s) ==
    LET signed == Len(s) > 0 /\ s[1] \in {"+", "-"}
        body   == IF signed THEN SubSeq(s, 2, Len(s)) ELSE s
        dots   == Occurrences(<<".">>, body)
        whole  == IF dots = {} THEN body ELSE SubSeq(body, 1, SetMin(dots) - 1)
        frac   == IF dots = {} THEN <<"0">>
                  ELSE SubSeq(body, SetMin(dots) + 1, Len(body))
        ok     == AllDigits(whole) /\ Len(frac) = 1 /\ IsDigit(frac[1])
        mag    == 10 * DigitsVal(whole) + DigitVal(frac[1])
    IN  IF ~ok THEN [ok |-> FALSE, val |-> 0]
        ELSE [ok |-> TRUE,
              val |-> IF signed /\ s[1] = "-" THEN 0 - mag ELSE mag]

(***************************************************************************)
(* dates                                                                   *)
(***************************************************************************)

IsLeap(y) == (y % 4 = 0 /\ y % 100 # 0) \/ y % 400 = 0

DaysInMonth(y, m) ==
    IF m = 2 THEN (IF IsLeap(y) THEN 29 ELSE 28)
    ELSE IF m \in {4, 6, 9, 11} THEN 30 ELSE 31

RECURSIVE DaysBeforeMonth(_, _)
DaysBeforeMonth(y, m) ==
    IF m = 1 THEN 0 ELSE DaysBeforeMonth(y, m - 1) + DaysInMonth(y, m - 1)

DaysBeforeYear(y) ==
    LET p == y - 1 IN p * 365 + (p \div 4) - (p \div 100) + (p \div 400)

(* date.toordinal(): day 1 is 0001-01-01 *)
ToOrdinal(dt) == DaysBeforeYear(dt[1]) + DaysBeforeMonth(dt[1], dt[2]) + dt[3]

(* datetime.strptime(s, '%Y-%m-%d').date(): ValueError unless the fields name
   a calendar day *)
Strptime(s) ==
    IF Len(s) = 3 /\ s[1] \in 1..9999 /\ s[2] \in 1..12
       /\ s[3] \in 1..DaysInMonth(s[1], s[2])
    THEN [ok |-> TRUE, ord |-> ToOrdinal(s)]
    ELSE [ok |-> FALSE, ord |-> 0]

(***************************************************************************)
(* bounds of the model                                                     *)
(***************************************************************************)

(* longest pick collection a store starts with *)
MaxPicks == 2
(* number of times the calendar day advances *)
MaxDays == 1

(***************************************************************************)
(* the strings of the model's inputs                                       *)
(***************************************************************************)

sVs     == <<" ", "v", "s", " ">>
sReds   == <<"R", "e", "d", "s">>
sRedSox == <<"R", "e", "d", " ", "S", "o", "x">>
sMets   == <<"M", "e", "t", "s">>
sCubs   == <<"C", "u", "b", "s">>
sNadal  == <<"N", "a", "d", "a", "l">>
sDjoko  == <<"D", "j", "o", "k", "o">>
sRNadal == <<"R", " ">> \o sNadal
sYanks    == <<"Y", "a", "n", "k", "s">>
sMurray   == <<"M", "u", "r", "r", "a", "y">>
sWawrinka == <<"W", "a", "w", "r", "i", "n", "k", "a">>
sFederer  == <<"F", "e", "d", "e", "r", "e", "r">>
sNDjoko == <<"N", " ">> \o sDjoko

(* the first day of the model and the day after it: Sunday 2025-06-29 and
   Monday 2025-06-30 *)
Day1 == <<2025, 6, 29>>
Day2 == <<2025, 6, 30>>

(* the date `days` days after Day1, as date.today() reports it *)
DateAfter(days) == IF days = 0 THEN Day1
                   ELSE IF days = 1 THEN Day2
                   ELSE <<2025, 7, days - 1>>

(***************************************************************************)
(* the result provider (api-sports), an external collaborator              *)
(***************************************************************************)

(* BASE_URLS *)
BASE_URLS == {"MLB", "Tennis"}

(* One game record of the provider's /games response, with the fields the
   code reads. *)
Game(id, home, away, long, ht, at, hs, as, winner) ==
    [id     |-> id,
     teams  |-> [home |-> [name |-> home], away |-> [name |-> away]],
     status |-> [long |-> long],
     scores |-> [home |-> [total |-> ht, sets |-> hs],
                 away |-> [total |-> at, sets |-> as]],
     winner |-> winner]

(* The provider is down (every request raises a RequestException), up with
   an empty result set, up with the games still being played, up with the
   games finished, or up with the finished games' scores revised. *)
ProviderStates == {"down", "empty", "playing", "final", "revised"}

StatusLong(prov) ==
    IF prov \in {"final", "revised"} THEN "Finished" ELSE "Not Started"

(* data['response'] of GET <BASE_URLS[sport]>/games in provider state prov,
   in the provider's order *)
Response(prov, sport) ==
    IF prov \in {"down", "empty"} THEN <<>>
    ELSE IF sport = "MLB"
    THEN (IF prov = "revised"
          THEN <<Game(7, sReds, sRedSox, StatusLong(prov), 4, 5, 0, 0, None)>>
          ELSE <<Game(7, sReds, sRedSox, StatusLong(prov), 5, 4, 0, 0, None)>>)
         \o <<Game(8, sRedSox, sCubs, StatusLong(prov), 1, 3, 0, 0, None),
              Game(0, sCubs, sYanks, StatusLong(prov), 6, 2, 0, 0, None)>>
    ELSE (IF prov = "revised"
          THEN <<Game(9, sRNadal, sNDjoko, StatusLong(prov), 0, 0, 1, 3,
                      Some([name |-> sNDjoko]))>>
          ELSE <<Game(9, sRNadal, sNDjoko, StatusLong(prov), 0, 0, 3, 1,
                      Some([name |-> sRNadal]))>>)
         \o <<Game(6, sMurray, sWawrinka, StatusLong(prov), 0, 0, 0, 0, None)>>

(***************************************************************************)
(* picks                                                                   *)
(***************************************************************************)

Pick(sport, bet_type, prediction, game, date, odds) ==
    [sport         |-> sport,
     bet_type      |-> bet_type,
     prediction    |-> prediction,
     event_details |-> [game |-> game, date |-> date],
     stake         |-> 10,
     odds          |-> odds,
     status        |-> "pending",
     profit_loss   |-> None]

gMLB    == sReds \o sVs \o sRedSox
gOther  == sMets \o sVs \o sCubs
gTennis == sNadal \o sVs \o sDjoko

(* The picks a store may start with: all pending, as the picks are created. *)
PickPool ==
    { Pick("MLB", "Spread", sReds \o <<" ", "-", "0", ".", "5">>, gMLB, Day1, Some(190)),
      Pick("MLB", "Spread", sReds \o <<" ", "-", "1", ".", "0">>, gMLB, Day1, None),
      Pick("MLB", "Spread", sRedSox \o <<" ", "+", "1", ".", "5">>, gMLB, Day1, Some(0)),
      Pick("MLB", "Spread", sReds, gMLB, Day1, Some(190)),
      Pick("MLB", "Spread", sReds \o <<" ", "a", "b", "c">>, gMLB, Day1, None),
      Pick("MLB", "Moneyline", sReds, gMLB, Day1, Some(190)),
      Pick("MLB", "Spread", sMets \o <<" ", "+", "1", ".", "5">>, gOther, Day1, Some(190)),
      Pick("Tennis", "Moneyline", sNadal, gTennis, Day2, Some(150)) }

gYanks  == sYanks \o sVs \o sCubs
gSox    == sRedSox \o sVs \o sCubs
gMurray == sMurray \o sVs \o sWawrinka

sNadal31   == sNadal \o <<" ", "3", "-", "1">>
sDjoko13   == sDjoko \o <<" ", "1", "-", "3">>
sN13       == <<"N", " ", "1", "-", "3">>
sFederer31 == sFederer \o <<" ", "3", "-", "1">>
sDjokoWins == sDjoko \o <<" ", "w", "i", "n", "s">>

(* The picks of the stores that exercise the tennis rules and the search for
   the game: all pending and dated Day1. *)
GradingPool ==
    { Pick("Tennis", "Moneyline", sNadal, gTennis, Day1, Some(150)),
      Pick("Tennis", "Moneyline", sDjokoWins, gTennis, Day1, None),
      Pick("Tennis", "Moneyline", sMurray, gMurray, Day1, Some(150)),
      Pick("Tennis", "Set Betting", sNadal31, gTennis, Day1, Some(150)),
      Pick("Tennis", "Set Betting", sDjoko13, gTennis, Day1, None),
      Pick("Tennis", "Set Betting", sN13, gTennis, Day1, Some(150)),
      Pick("Tennis", "Set Betting", sFederer31, gTennis, Day1, Some(150)),
      Pick("MLB", "Spread", sYanks \o <<" ", "+", "1", ".", "5">>, gYanks, Day1, Some(190)),
      Pick("MLB", "Spread", sRedSox \o <<" ", "-", "0", ".", "5">>, gSox, Day1, Some(190)) }

(* the sequences of at most n elements of S, no element twice *)
RECURSIVE SeqsUpTo(_, _)
SeqsUpTo(S, n) ==
    IF n = 0 THEN {<<>>}
    ELSE LET shorter == SeqsUpTo(S, n - 1)
         IN  shorter \cup
             { Append(q[1], q[2]) :
                 q \in { r \in shorter \X S : \A k \in DOMAIN r[1] : r[1][k] # r[2] } }

(***************************************************************************)
(* state                                                                   *)
(***************************************************************************)

VARIABLES
    file,        \* my_picks.json: [state: absent | corrupt | ok, picks]
    provider,    \* the provider's state, one of ProviderStates
    days,        \* days elapsed since Day1; today is DateAfter(days)
    pc,          \* where update_results is: idle, loop, find, result, grade,
                 \* save_open, save_dump, done (returned), crashed (raised)
    picks,       \* update_results: the list bound to `picks`
    i,           \* update_results: 1-based position of the for loop
    game_id,     \* update_results: game_id of the current pick
    game_result, \* update_results: game_result of the current pick
    loaded,      \* history: the list get_picks returned to this run
    graded,      \* history: positions this run has made a grading decision on
    outcome,     \* history: how this run left the latest pick it looked at:
                 \* none, settled, future, no_request (not found, no request
                 \* made), not_found, absent, unfinished,
                 \* graded, raised
    saves,       \* history: save_picks calls completed by the latest run
    stable,      \* history: provider and day unchanged since the latest run
                 \* started
    rerun,       \* history: this run started right after a run that saved,
                 \* with provider and day unchanged since that run started
    clock,       \* time of day, in seconds after midnight, datetime.now() reads
    rpc,         \* where generate_report is: idle, window, loop, roi, done
                 \* (returned), crashed (raised)
    error,       \* the exception that ended generate_report, "none" if none
    period,      \* generate_report: its argument
    r_picks,     \* generate_report: the list bound to `picks`
    start_of_period, \* generate_report: [ord, time], a datetime
    end_of_period,   \* generate_report: [ord, time], a datetime
    j,           \* generate_report: 1-based position of the for loop
    total_staked,      \* generate_report
    total_profit_loss, \* generate_report, in hundredths
    wins,        \* generate_report
    losses,      \* generate_report
    pending,     \* generate_report
    roi,         \* generate_report: [num, den], the percentage num / den
    included,    \* history: positions that passed the window test
    o_pc,        \* where a second update_results process is: idle, loop
                 \* (loaded), save (loop over), done
    o_picks      \* the second process: the list bound to `picks`

report == <<rpc, error, period, r_picks, start_of_period, end_of_period, j,
            total_staked, total_profit_loss, wins, losses, pending, roi,
            included>>

second == <<o_pc, o_picks>>

vars == <<file, provider, days, pc, picks, i, game_id, game_result,
          loaded, graded, outcome, saves, stable, rerun, clock, report, second>>

local == <<picks, i, game_id, game_result>>
updater == <<pc, local, loaded, graded, outcome, saves>>
world == <<provider, days, clock>>
hist  == <<stable, rerun>>

Absent  == [state |-> "absent", picks |-> <<>>]
Corrupt == [state |-> "corrupt", picks |-> <<>>]
Stored(ps) == [state |-> "ok", picks |-> ps]
(* bytes that are not text in the encoding open() reads the file with *)
Undecodable == [state |-> "undecodable", picks |-> <<>>]

today == DateAfter(days)

(* a datetime: the day's ordinal and the seconds after midnight *)
DateTime(ord, time) == [ord |-> ord, time |-> time]

(* the exact percentage num / den *)
Ratio(num, den) == [num |-> num, den |-> den]

(* no second update_results process has been started *)
OtherIdle ==
    /\ o_pc = "idle"
    /\ o_picks = <<>>

(* generate_report has not been called *)
ReportIdle ==
    /\ rpc = "idle"
    /\ error = "none"
    /\ period = "all"
    /\ r_picks = <<>>
    /\ start_of_period = DateTime(0, 0)
    /\ end_of_period = DateTime(0, 0)
    /\ j = 0
    /\ total_staked = 0
    /\ total_profit_loss = 0
    /\ wins = 0
    /\ losses = 0
    /\ pending = 0
    /\ roi = Ratio(0, 1)
    /\ included = {}

(***************************************************************************)
(* results_updater.py, the functions                                       *)
(***************************************************************************)

(* get_picks(): [] when the file is absent or is not JSON *)
get_picks(f) == IF f.state = "ok" THEN f.picks ELSE <<>>

(* get_picks(): json.load reads the file as text before it parses it; the
   UnicodeDecodeError of that read is neither FileNotFoundError nor
   JSONDecodeError and leaves get_picks *)
get_picks_raises(f) == f.state = "undecodable"

(* The HTTP exchange of get_game_id / get_game_results: requests.get and
   raise_for_status raise a RequestException when the provider is down. *)
RequestRaises(prov) == prov = "down"

(* requests.get is called without a timeout: while the provider accepts the
   connection and sends nothing, the call does not return *)
RequestBlocks(prov) == prov = "silent"

(* the functions without their test of the sport: a request for any sport *)
SupportsAny(sport) == TRUE

(* `if sport not in BASE_URLS: return None` of get_game_id and
   get_game_results negated: the function goes on to its request *)
Supports(sport) == sport \in BASE_URLS

(* get_game_id without its except clause: the RequestException leaves it *)
get_game_id_uncaught(prov, sport, team_name) ==
    LET resp    == Response(prov, sport)
        matches == { k \in 1..Len(resp) :
                       \/ Contains(team_name, resp[k].teams.home.name)
                       \/ Contains(team_name, resp[k].teams.away.name) }
    IN  IF ~Supports(sport) THEN [raised |-> FALSE, value |-> None]
        ELSE IF RequestRaises(prov) THEN [raised |-> TRUE, value |-> None]
        ELSE IF matches = {} THEN [raised |-> FALSE, value |-> None]
        ELSE [raised |-> FALSE, value |-> Some(resp[SetMin(matches)].id)]

(* get_game_id(sport, team_name, game_date): [raised, value]; the function
   catches RequestException, so nothing is raised to the caller. *)
get_game_id(prov, sport, team_name) ==
    LET resp    == Response(prov, sport)
        matches == { k \in 1..Len(resp) :
                       \/ Contains(team_name, resp[k].teams.home.name)
                       \/ Contains(team_name, resp[k].teams.away.name) }
    IN  IF ~Supports(sport) THEN [raised |-> FALSE, value |-> None]
        ELSE IF RequestRaises(prov) THEN [raised |-> FALSE, value |-> None]
        ELSE IF matches = {} THEN [raised |-> FALSE, value |-> None]
        ELSE [raised |-> FALSE, value |-> Some(resp[SetMin(matches)].id)]

(* get_game_results(sport, game_id): [raised, value] *)
get_game_results(prov, sport, id) ==
    LET resp == SelectSeq(Response(prov, sport), LAMBDA g : g.id = id)
    IN  IF ~Supports(sport) THEN [raised |-> FALSE, value |-> None]
        ELSE IF RequestRaises(prov) THEN [raised |-> FALSE, value |-> None]
        ELSE IF resp = <<>> THEN [raised |-> FALSE, value |-> None]
        ELSE [raised |-> FALSE, value |-> Some(resp[1])]

(* the comparison with >= for > : a push wins *)
SpreadBeatsOrTies(score, spread, other) == 10 * score + spread >= 10 * other

(* (score + spread) > other, the spread in tenths *)
SpreadBeats(score, spread, other) == 10 * score + spread > 10 * other

(* the test with its operands exchanged: the winner's name in the player's *)
MoneylineWinsSwapped(player_name, winner) ==
    winner # None /\ Contains(winner[1].name, player_name)

(* winner and player_name in winner.get('name', '') *)
MoneylineWins(player_name, winner) ==
    winner # None /\ Contains(player_name, winner[1].name)

(* f"{a}-{b}" *)
ScoreStr(a, b) == FormatInt(a) \o <<"-">> \o FormatInt(b)

(* the away branch comparing the score as the home side reads it *)
SetBettingWinsUnturned(player_name, set_score_str, g) ==
    IF Contains(player_name, g.teams.home.name)
    THEN ScoreStr(g.scores.home.sets, g.scores.away.sets) = set_score_str
    ELSE IF Contains(player_name, g.teams.away.name)
    THEN ScoreStr(g.scores.home.sets, g.scores.away.sets) = set_score_str
    ELSE FALSE

(* the Set Betting branch: the score read from the side the player is on,
   the home side tried first; False when the player is on neither side *)
SetBettingWins(player_name, set_score_str, g) ==
    IF Contains(player_name, g.teams.home.name)
    THEN ScoreStr(g.scores.home.sets, g.scores.away.sets) = set_score_str
    ELSE IF Contains(player_name, g.teams.away.name)
    THEN ScoreStr(g.scores.away.sets, g.scores.home.sets) = set_score_str
    ELSE FALSE

(* the home side only for a name that is not in the away team's name too *)
OnHomeSideOnly(team_name, g) ==
    Contains(team_name, g.teams.home.name) /\ ~Contains(team_name, g.teams.away.name)

(* if team_name in game_result['teams']['home']['name']: ... else: ... *)
OnHomeSide(team_name, g) == Contains(team_name, g.teams.home.name)

(* did_pick_win(pick, game_result), for a game_result that is not None:
   [raised, value]; raised is the ValueError of the tuple unpacking of rsplit
   or of float() *)
did_pick_win(pick, g) ==
    LET parts  == RSplit1(pick.prediction)
        spread == FloatStr(parts[2])
        player == SplitFirst(pick.prediction, <<" ">>)
    IN  IF pick.sport = "MLB" /\ pick.bet_type = "Spread"
        THEN IF Len(parts) # 2 THEN [raised |-> TRUE, value |-> FALSE]
             ELSE IF ~spread.ok THEN [raised |-> TRUE, value |-> FALSE]
             ELSE IF OnHomeSide(parts[1], g)
             THEN [raised |-> FALSE,
                   value |-> SpreadBeats(g.scores.home.total, spread.val, g.scores.away.total)]
             ELSE [raised |-> FALSE,
                   value |-> SpreadBeats(g.scores.away.total, spread.val, g.scores.home.total)]
        ELSE IF pick.sport = "Tennis" /\ pick.bet_type = "Moneyline"
        THEN [raised |-> FALSE, value |-> MoneylineWins(player, g.winner)]
        ELSE IF pick.sport = "Tennis" /\ pick.bet_type = "Set Betting"
        THEN IF Len(parts) # 2 THEN [raised |-> TRUE, value |-> FALSE]
             ELSE [raised |-> FALSE, value |-> SetBettingWins(parts[1], parts[2], g)]
        ELSE [raised |-> FALSE, value |-> FALSE]

(* the loop without its status test: every pick is looked at *)
IsPendingAny(pick) == pick.status \in {"pending", "win", "loss"}

(* pick.get('status') == 'pending' *)
IsPending(pick) == pick.status = "pending"

(* the date check with >= for > : today's games are skipped too *)
InFutureOrToday(date_ord, today_ord) == date_ord >= today_ord

(* strptime(game_date).date() > datetime.now().date() *)
InFuture(date_ord, today_ord) == date_ord > today_ord

(* the test without the status: any result that is present is graded *)
IsPresent(res) == res # None

(* game_result and game_result.get('status', {}).get('long') == 'Finished' *)
IsFinished(res) == res # None /\ res[1].status.long = "Finished"

(* profit_loss of a win, in hundredths: stake * (odds - 1) if pick['odds']
   is truthy, else stake *)
WinProfit(pick) ==
    IF Truthy(pick.odds) THEN pick.stake * (pick.odds[1] - 100)
    ELSE pick.stake * 100

(* profit_loss of a loss, in hundredths *)
LossProfit(pick) == 0 - pick.stake * 100

(* the grading that sets the status and leaves profit_loss as it was *)
GradedStatusOnly(pick, won) ==
    IF won THEN [pick EXCEPT !.status = "win"]
    ELSE [pick EXCEPT !.status = "loss"]

(* the pick as update_results leaves it after grading *)
Graded(pick, won) ==
    IF won THEN [pick EXCEPT !.status = "win", !.profit_loss = Some(WinProfit(pick))]
    ELSE [pick EXCEPT !.status = "loss", !.profit_loss = Some(LossProfit(pick))]

(***************************************************************************)
(* update_results(), step by step                                          *)
(***************************************************************************)

Init ==
    /\ file \in {Absent, Corrupt} \cup { Stored(ps) : ps \in SeqsUpTo(PickPool, MaxPicks) }
    /\ provider \in ProviderStates
    /\ days = 0
    /\ pc = "idle"
    /\ picks = <<>>
    /\ i = 0
    /\ game_id = None
    /\ game_result = None
    /\ loaded = <<>>
    /\ graded = {}
    /\ outcome = "none"
    /\ saves = 0
    /\ stable = FALSE
    /\ rerun = FALSE
    /\ clock = 0
    /\ ReportIdle
    /\ OtherIdle

(* the loop stepping over the pick after the current one *)
NextPickTwo(how) ==
    /\ i' = i + 2
    /\ pc' = "loop"
    /\ game_id' = None
    /\ game_result' = None
    /\ outcome' = how

(* the for loop moves on to the next pick *)
NextPick(how) ==
    /\ i' = i + 1
    /\ pc' = "loop"
    /\ game_id' = None
    /\ game_result' = None
    /\ outcome' = how

(* an exception leaves update_results: the process ends, nothing is saved *)
Raise ==
    /\ pc' = "crashed"
    /\ outcome' = "raised"
    /\ UNCHANGED <<i, game_id, game_result>>

(* picks = get_picks(); if not picks: return *)
Load ==
    /\ pc = "idle"
    /\ picks' = get_picks(file)
    /\ loaded' = get_picks(file)
    /\ i' = 1
    /\ pc' = IF get_picks_raises(file) THEN "crashed"
             ELSE IF get_picks(file) = <<>> THEN "done" ELSE "loop"
    /\ graded' = {}
    /\ outcome' = IF get_picks_raises(file) THEN "raised" ELSE "none"
    /\ saves' = 0
    /\ rerun' = (saves = 1 /\ stable)
    /\ stable' = TRUE
    /\ UNCHANGED <<file, world, game_id, game_result, report, second>>

(* for pick in picks: the pick is not pending *)
SkipSettled ==
    /\ pc = "loop" /\ i <= Len(picks)
    /\ ~IsPending(picks[i])
    /\ NextPick("settled")
    /\ UNCHANGED <<file, world, picks, loaded, graded, saves, hist, report, second>>

(* a pending pick: the date check *)
CheckDate ==
    /\ pc = "loop" /\ i <= Len(picks)
    /\ IsPending(picks[i])
    /\ LET d == Strptime(picks[i].event_details.date)
       IN  IF ~d.ok THEN Raise
           ELSE IF InFuture(d.ord, ToOrdinal(today)) THEN NextPick("future")
           ELSE /\ pc' = "find"
                /\ UNCHANGED <<i, game_id, game_result, outcome>>
    /\ UNCHANGED <<file, world, picks, loaded, graded, saves, hist, report, second>>

(* team_to_search = game_name.split(' vs ')[0];
   game_id = get_game_id(sport, team_to_search, game_date); if game_id: *)
FindGame ==
    /\ pc = "find"
    /\ Supports(picks[i].sport) => ~RequestBlocks(provider)
    /\ LET r == get_game_id(provider, picks[i].sport,
                            SplitFirst(picks[i].event_details.game, sVs))
       IN  IF r.raised THEN Raise
           ELSE IF Truthy(r.value)
           THEN /\ pc' = "result"
                /\ game_id' = r.value
                /\ UNCHANGED <<i, game_result, outcome>>
           ELSE NextPick(IF Supports(picks[i].sport) THEN "not_found"
                         ELSE "no_request")
    /\ UNCHANGED <<file, world, picks, loaded, graded, saves, hist, report, second>>

(* the fetch that writes the result's status into the pick it is for *)
GetResultMarking ==
    /\ pc = "result"
    /\ Supports(picks[i].sport) => ~RequestBlocks(provider)
    /\ LET r == get_game_results(provider, picks[i].sport, game_id[1])
       IN  IF r.raised THEN Raise /\ UNCHANGED picks
           ELSE IF IsFinished(r.value)
           THEN /\ pc' = "grade"
                /\ game_result' = r.value
                /\ picks' = [picks EXCEPT ![i].bet_type = r.value[1].status.long]
                /\ UNCHANGED <<i, game_id, outcome>>
           ELSE NextPick(IF r.value = None THEN "absent" ELSE "unfinished")
                /\ UNCHANGED picks
    /\ UNCHANGED <<file, world, loaded, graded, saves, hist, report, second>>

(* game_result = get_game_results(sport, game_id);
   if game_result and status long == 'Finished': *)
GetResult ==
    /\ pc = "result"
    /\ Supports(picks[i].sport) => ~RequestBlocks(provider)
    /\ LET r == get_game_results(provider, picks[i].sport, game_id[1])
       IN  IF r.raised THEN Raise
           ELSE IF IsFinished(r.value)
           THEN /\ pc' = "grade"
                /\ game_result' = r.value
                /\ UNCHANGED <<i, game_id, outcome>>
           ELSE NextPick(IF r.value = None THEN "absent" ELSE "unfinished")
    /\ UNCHANGED <<file, world, picks, loaded, graded, saves, hist, report, second>>

(* if did_pick_win(pick, game_result): ... else: ... *)
Grade ==
    /\ pc = "grade"
    /\ LET r == did_pick_win(picks[i], game_result[1])
       IN  IF r.raised
           THEN Raise /\ UNCHANGED <<picks, graded>>
           ELSE /\ NextPick("graded")
                /\ picks' = [picks EXCEPT ![i] = Graded(picks[i], r.value)]
                /\ graded' = graded \cup {i}
    /\ UNCHANGED <<file, world, loaded, saves, hist, report, second>>

(* save_picks: open(PICKS_FILE, 'w') truncates the file *)
SaveOpen ==
    /\ pc = "loop" /\ i > Len(picks)
    /\ file' = Corrupt
    /\ pc' = "save_dump"
    /\ UNCHANGED <<world, local, loaded, graded, outcome, saves, hist, report, second>>

(* the save that writes only the picks still pending *)
SaveDumpUnsettled ==
    /\ pc = "save_dump"
    /\ file' = Stored(SelectSeq(picks, IsPending))
    /\ pc' = "done"
    /\ saves' = saves + 1
    /\ UNCHANGED <<world, local, loaded, graded, outcome, hist, report, second>>

(* save_picks: json.dump writes the list and the file is closed *)
SaveDump ==
    /\ pc = "save_dump"
    /\ file' = Stored(picks)
    /\ pc' = "done"
    /\ saves' = saves + 1
    /\ UNCHANGED <<world, local, loaded, graded, outcome, hist, report, second>>

(* the process ends and its memory is gone *)
Exit ==
    /\ pc \in {"done", "crashed"}
    /\ pc' = "idle"
    /\ picks' = <<>>
    /\ i' = 0
    /\ game_id' = None
    /\ game_result' = None
    /\ loaded' = <<>>
    /\ graded' = {}
    /\ outcome' = "none"
    /\ UNCHANGED <<file, world, saves, hist, report, second>>

(* the process is killed (a signal, a power loss) while update_results is
   under way: nothing more of it runs *)
Kill ==
    /\ pc \in {"loop", "find", "result", "grade", "save_dump"}
    /\ pc' = "killed"
    /\ UNCHANGED <<file, world, local, loaded, graded, outcome, saves, hist, report, second>>

(***************************************************************************)
(* the environment                                                         *)
(***************************************************************************)

(* The provider goes down, comes up, lists games, games finish.  Its state
   is seen only by the requests, so the change is taken between runs or
   right before a request. *)
ProviderChange ==
    /\ pc \in {"idle", "find", "result"}
    /\ \E p \in ProviderStates \ {provider} : provider' = p
    /\ stable' = FALSE
    /\ rerun' = FALSE
    /\ UNCHANGED <<file, days, clock, pc, local, loaded, graded, outcome, saves,
                   report, second>>

(* Midnight passes.  The day is read only by the date check, so the change
   is taken between runs or at the top of the loop. *)
AdvanceDay ==
    /\ pc \in {"idle", "loop"}
    /\ days < MaxDays
    /\ days' = days + 1
    /\ stable' = FALSE
    /\ rerun' = FALSE
    /\ UNCHANGED <<file, provider, clock, pc, local, loaded, graded, outcome,
                   saves, report, second>>

Next ==
    \/ Load
    \/ SkipSettled
    \/ CheckDate
    \/ FindGame
    \/ GetResult
    \/ Grade
    \/ SaveOpen
    \/ SaveDump
    \/ Exit
    \/ ProviderChange
    \/ AdvanceDay

Spec == Init /\ [][Next]_vars

(* settlement runs on the stores of GradingPool *)
InitGrading ==
    /\ file \in { Stored(ps) : ps \in SeqsUpTo(GradingPool, MaxPicks) }
    /\ provider \in ProviderStates
    /\ days = 0
    /\ pc = "idle"
    /\ picks = <<>>
    /\ i = 0
    /\ game_id = None
    /\ game_result = None
    /\ loaded = <<>>
    /\ graded = {}
    /\ outcome = "none"
    /\ saves = 0
    /\ stable = FALSE
    /\ rerun = FALSE
    /\ clock = 0
    /\ ReportIdle
    /\ OtherIdle

(* every pick of these stores is dated Day1: the day stays as it is *)
NextGrading ==
    \/ Load
    \/ SkipSettled
    \/ CheckDate
    \/ FindGame
    \/ GetResult
    \/ Grade
    \/ SaveOpen
    \/ SaveDump
    \/ Exit
    \/ ProviderChange

SpecGrading == InitGrading /\ [][NextGrading]_vars

(***************************************************************************)
(* performance_reporter.py, the functions                                  *)
(***************************************************************************)

(* performance_reporter.get_picks(): [] when the file is absent or is not
   JSON *)
reporter_get_picks(f) == IF f.state = "ok" THEN f.picks ELSE <<>>

(* performance_reporter.get_picks(): the UnicodeDecodeError of reading the
   file is not caught *)
reporter_get_picks_raises(f) == f.state = "undecodable"

(* the values given for `period`; 'daily' is a period the function does not
   know *)
Periods == {"weekly", "monthly", "all", "daily"}

(* the times of day a report is generated at: midnight sharp and noon *)
TimesOfDay == {0, 43200}

(* date.weekday(): Monday is 0 *)
Weekday(ord) == (ord + 6) % 7

(* the day field of the date of ordinal n, a date of month m of year y or of
   the month after it *)
DayOf(n, y, m) ==
    LET first == ToOrdinal(<<y, m, 1>>)
        after == first + DaysInMonth(y, m)
    IN  IF n < after THEN n - first + 1 ELSE n - after + 1

(* a <= b on datetimes *)
DateTimeLeq(a, b) == a.ord < b.ord \/ (a.ord = b.ord /\ a.time <= b.time)

(* start_of_period and end_of_period as generate_report computes them from
   today = datetime.now(), the day `date` at `time`:
   weekly   today - timedelta(days=today.weekday()), and 6 days after it;
   monthly  today.replace(day=1), and next_month - timedelta(days=
            next_month.day) for next_month = start.replace(day=28) + 4 days;
   all      datetime.min, datetime.max;
   ok is FALSE for any other period *)
Window(p, date, time) ==
    LET ord        == ToOrdinal(date)
        monday     == ord - Weekday(ord)
        next_month == ToOrdinal(<<date[1], date[2], 28>>) + 4
    IN  IF p = "weekly"
        THEN [ok |-> TRUE, start |-> DateTime(monday, time),
              end |-> DateTime(monday + 6, time)]
        ELSE IF p = "monthly"
        THEN [ok |-> TRUE, start |-> DateTime(ToOrdinal(<<date[1], date[2], 1>>), time),
              end |-> DateTime(next_month - DayOf(next_month, date[1], date[2]), time)]
        ELSE IF p = "all"
        THEN [ok |-> TRUE, start |-> DateTime(ToOrdinal(<<1, 1, 1>>), 0),
              end |-> DateTime(ToOrdinal(<<9999, 12, 31>>), 86399)]
        ELSE [ok |-> FALSE, start |-> DateTime(0, 0), end |-> DateTime(0, 0)]

(* start_of_period <= pick_date <= end_of_period, pick_date at midnight *)
InWindow(pick_ord, start, end) ==
    /\ DateTimeLeq(start, DateTime(pick_ord, 0))
    /\ DateTimeLeq(DateTime(pick_ord, 0), end)

(* pick.get('status') in ['win', 'loss'] *)
IsSettled(pick) == pick.status \in {"win", "loss"}

(* the stake added without the status test: pending picks are staked too *)
StakedByAny(pick) == pick.stake

(* what an included pick adds to total_staked *)
StakedBy(pick) == IF IsSettled(pick) THEN pick.stake ELSE 0

(* the guard with >= for > : a total of 0 is divided by *)
HasStakeOrNone(staked) == staked >= 0

(* total_staked > 0 *)
HasStake(staked) == staked > 0

(* a / b: [raised, value]; raised is the ZeroDivisionError *)
Divide(a, b) ==
    IF b = 0 THEN [raised |-> TRUE, value |-> Ratio(0, 1)]
    ELSE [raised |-> FALSE, value |-> Ratio(a, b)]

(* (total_profit_loss / total_staked) * 100 if total_staked > 0 else 0, the
   profit in hundredths: [raised, value] *)
Roi(profit, staked) ==
    IF HasStake(staked) THEN Divide(profit, staked)
    ELSE [raised |-> FALSE, value |-> Ratio(0, 1)]

(***************************************************************************)
(* generate_report(period), step by step                                   *)
(***************************************************************************)

totals == <<total_staked, total_profit_loss, wins, losses, pending>>

(* an exception leaves generate_report *)
ReportRaise(e) ==
    /\ rpc' = "crashed"
    /\ error' = e

(* picks = get_picks(); if not picks: return *)
RLoad(p) ==
    /\ rpc = "idle"
    /\ period' = p
    /\ IF reporter_get_picks_raises(file)
       THEN ReportRaise("UnicodeDecodeError") /\ UNCHANGED r_picks
       ELSE /\ r_picks' = reporter_get_picks(file)
            /\ rpc' = IF reporter_get_picks(file) = <<>> THEN "done" ELSE "window"
            /\ UNCHANGED error
    /\ UNCHANGED <<file, world, updater, hist, second, start_of_period, end_of_period, j,
                   totals, roi, included>>

(* today = datetime.now(); the window of the period, or the return on a
   period that is none of the three *)
RWindow ==
    /\ rpc = "window"
    /\ LET w == Window(period, today, clock)
       IN  IF w.ok
           THEN /\ start_of_period' = w.start
                /\ end_of_period' = w.end
                /\ j' = 1
                /\ rpc' = "loop"
           ELSE /\ rpc' = "done"
                /\ UNCHANGED <<start_of_period, end_of_period, j>>
    /\ UNCHANGED <<file, world, updater, hist, second, error, period, r_picks, totals, roi,
                   included>>

(* for pick in picks: one turn of the loop *)
RPick ==
    /\ rpc = "loop" /\ j <= Len(r_picks)
    /\ LET pick == r_picks[j]
           d    == Strptime(pick.event_details.date)
       IN  IF pick.event_details.date = None
           THEN /\ j' = j + 1
                /\ UNCHANGED <<rpc, error, totals, included>>
           ELSE IF ~d.ok
           THEN ReportRaise("ValueError") /\ UNCHANGED <<j, totals, included>>
           ELSE IF ~InWindow(d.ord, start_of_period, end_of_period)
           THEN /\ j' = j + 1
                /\ UNCHANGED <<rpc, error, totals, included>>
           ELSE IF IsSettled(pick) /\ pick.profit_loss = None
           THEN ReportRaise("TypeError") /\ UNCHANGED <<j, totals, included>>
           ELSE /\ j' = j + 1
                /\ included' = included \cup {j}
                /\ total_staked' = total_staked + StakedBy(pick)
                /\ total_profit_loss' =
                       total_profit_loss
                       + (IF IsSettled(pick) THEN pick.profit_loss[1] ELSE 0)
                /\ wins' = wins + (IF pick.status = "win" THEN 1 ELSE 0)
                /\ losses' = losses + (IF pick.status = "loss" THEN 1 ELSE 0)
                /\ pending' = pending + (IF pick.status = "pending" THEN 1 ELSE 0)
                /\ UNCHANGED <<rpc, error>>
    /\ UNCHANGED <<file, world, updater, hist, second, period, r_picks, start_of_period,
                   end_of_period, roi>>

(* the end of the report emptying the store it has read *)
RRoiClearing ==
    /\ rpc = "loop" /\ j > Len(r_picks)
    /\ roi' = Roi(total_profit_loss, total_staked).value
    /\ rpc' = "done"
    /\ file' = Stored(<<>>)
    /\ UNCHANGED <<world, updater, hist, second, error, period, r_picks,
                   start_of_period, end_of_period, j, totals, included>>

(* the loop is over: roi is computed and the report printed *)
RRoi ==
    /\ rpc = "loop" /\ j > Len(r_picks)
    /\ LET r == Roi(total_profit_loss, total_staked)
       IN  IF r.raised THEN ReportRaise("ZeroDivisionError") /\ UNCHANGED roi
           ELSE /\ roi' = r.value
                /\ rpc' = "done"
                /\ UNCHANGED error
    /\ UNCHANGED <<file, world, updater, hist, second, period, r_picks, start_of_period,
                   end_of_period, j, totals, included>>

(***************************************************************************)
(* a settlement run, killed or not, while a report loads the store          *)
(***************************************************************************)

(* a pick to grade, a pick of the other sport, a pick settled before *)
StorePool ==
    { Pick("MLB", "Spread", sReds \o <<" ", "-", "0", ".", "5">>, gMLB, Day1, Some(190)),
      Pick("Tennis", "Moneyline", sNadal, gTennis, Day1, Some(150)),
      Graded(Pick("MLB", "Spread", sRedSox \o <<" ", "+", "1", ".", "5">>, gMLB, Day1,
                  Some(190)), TRUE) }

InitStore ==
    /\ file \in {Absent, Corrupt, Undecodable}
                \cup { Stored(ps) : ps \in SeqsUpTo(StorePool, MaxPicks) }
    /\ provider \in ProviderStates
    /\ days = 0
    /\ pc = "idle"
    /\ picks = <<>>
    /\ i = 0
    /\ game_id = None
    /\ game_result = None
    /\ loaded = <<>>
    /\ graded = {}
    /\ outcome = "none"
    /\ saves = 0
    /\ stable = FALSE
    /\ rerun = FALSE
    /\ clock = 0
    /\ ReportIdle
    /\ OtherIdle

NextStore ==
    \/ Load
    \/ SkipSettled
    \/ CheckDate
    \/ FindGame
    \/ GetResult
    \/ Grade
    \/ SaveOpen
    \/ SaveDump
    \/ Exit
    \/ ProviderChange
    \/ Kill
    \/ RLoad("all")

SpecStore == InitStore /\ [][NextStore]_vars

(***************************************************************************)
(* reports on a store at rest                                              *)
(***************************************************************************)

(* a settled or pending pick of the given date *)
Dated(date, status) ==
    LET pick == Pick("MLB", "Spread", sReds \o <<" ", "-", "0", ".", "5">>, gMLB, date,
                     Some(190))
    IN  IF status = "pending" THEN pick ELSE Graded(pick, status = "win")

(* picks on the days the windows begin and end at, picks around them, a pick
   without a date, a pick whose date ('2025-13-01') is no calendar day and a
   pick with no stake *)
ReportPool ==
    { Dated(<<2025, 5, 31>>, "loss"),
      Dated(<<2025, 6, 1>>, "win"),
      Dated(<<2025, 6, 23>>, "loss"),
      Dated(Day1, "loss"),
      Dated(Day1, "pending"),
      Graded([Dated(Day1, "pending") EXCEPT !.stake = 0], TRUE),
      Dated(Day2, "win"),
      Dated(<<2025, 7, 1>>, "win"),
      Dated(<<2025, 7, 6>>, "loss"),
      Dated(<<2025, 7, 7>>, "pending"),
      Dated(None, "win"),
      Dated(<<2025, 13, 1>>, "loss") }

InitReport ==
    /\ file \in {Absent, Undecodable}
                \cup { Stored(ps) : ps \in SeqsUpTo(ReportPool, MaxPicks) }
    /\ provider = "final"
    /\ days \in 0..MaxDays
    /\ clock \in TimesOfDay
    /\ pc = "idle"
    /\ picks = <<>>
    /\ i = 0
    /\ game_id = None
    /\ game_result = None
    /\ loaded = <<>>
    /\ graded = {}
    /\ outcome = "none"
    /\ saves = 0
    /\ stable = FALSE
    /\ rerun = FALSE
    /\ ReportIdle
    /\ OtherIdle

NextReport ==
    \/ \E p \in Periods : RLoad(p)
    \/ RWindow
    \/ RPick
    \/ RRoi

SpecReport == InitReport /\ [][NextReport]_vars

(***************************************************************************)
(* settlement runs on a store of pending picks, and a report on it         *)
(***************************************************************************)

(* pending picks: one with odds, one with odds 0, one without odds whose
   game is a day ahead *)
PendingPool ==
    { Pick("MLB", "Spread", sReds \o <<" ", "-", "0", ".", "5">>, gMLB, Day1, Some(190)),
      Pick("MLB", "Spread", sRedSox \o <<" ", "+", "1", ".", "5">>, gMLB, Day1, Some(0)),
      Pick("Tennis", "Moneyline", sNadal, gTennis, Day2, None) }

InitSettled ==
    /\ file \in { Stored(ps) : ps \in SeqsUpTo(PendingPool, MaxPicks) }
    /\ provider \in ProviderStates
    /\ days = 0
    /\ clock \in TimesOfDay
    /\ pc = "idle"
    /\ picks = <<>>
    /\ i = 0
    /\ game_id = None
    /\ game_result = None
    /\ loaded = <<>>
    /\ graded = {}
    /\ outcome = "none"
    /\ saves = 0
    /\ stable = FALSE
    /\ rerun = FALSE
    /\ ReportIdle
    /\ OtherIdle

NextSettled ==
    \/ Load
    \/ SkipSettled
    \/ CheckDate
    \/ FindGame
    \/ GetResult
    \/ Grade
    \/ SaveOpen
    \/ SaveDump
    \/ Exit
    \/ ProviderChange
    \/ \E p \in Periods : RLoad(p)
    \/ RWindow
    \/ RPick
    \/ RRoi

SpecSettled == InitSettled /\ [][NextSettled]_vars

(***************************************************************************)
(* a settlement run and a provider that may stop answering                 *)
(***************************************************************************)

(* The provider accepts connections and sends nothing from now on. *)
ProviderSilent ==
    /\ pc \in {"idle", "find", "result"}
    /\ provider # "silent"
    /\ provider' = "silent"
    /\ stable' = FALSE
    /\ rerun' = FALSE
    /\ UNCHANGED <<file, days, clock, pc, local, loaded, graded, outcome, saves,
                   report, second>>

InitSilent ==
    /\ file \in { Stored(ps) : ps \in SeqsUpTo(StorePool, MaxPicks) }
    /\ provider \in ProviderStates
    /\ days = 0
    /\ clock = 0
    /\ pc = "idle"
    /\ picks = <<>>
    /\ i = 0
    /\ game_id = None
    /\ game_result = None
    /\ loaded = <<>>
    /\ graded = {}
    /\ outcome = "none"
    /\ saves = 0
    /\ stable = FALSE
    /\ rerun = FALSE
    /\ ReportIdle
    /\ OtherIdle

(* a step of the loop of update_results or of its save *)
RunStep ==
    \/ SkipSettled
    \/ CheckDate
    \/ FindGame
    \/ GetResult
    \/ Grade
    \/ SaveOpen
    \/ SaveDump

NextSilent ==
    \/ Load
    \/ RunStep
    \/ Exit
    \/ ProviderChange
    \/ ProviderSilent

(* the process of a run, while it can take a step, takes one *)
SpecSilent == InitSilent /\ [][NextSilent]_vars /\ WF_vars(RunStep)

(***************************************************************************)
(* settlement runs on predictions naming both teams, neither, and on a     *)
(* sport without a provider                                                *)
(***************************************************************************)

sRed      == <<"R", "e", "d">>
sLakers   == <<"L", "a", "k", "e", "r", "s">>
sCeltics  == <<"C", "e", "l", "t", "i", "c", "s">>
sMinusHalf == <<" ", "-", "0", ".", "5">>
gLakers   == sLakers \o sVs \o sCeltics

(* on Reds (home) against Red Sox (away): 'Red' is in both names, 'Mets' in
   neither, 'Reds' in the home name only, 'Red Sox' in the away name only;
   and a pick of the NBA, for which BASE_URLS has no entry *)
SidesPool ==
    { Pick("MLB", "Spread", sRed \o sMinusHalf, gMLB, Day1, Some(190)),
      Pick("MLB", "Spread", sMets \o sMinusHalf, gMLB, Day1, Some(190)),
      Pick("MLB", "Spread", sReds \o sMinusHalf, gMLB, Day1, Some(190)),
      Pick("MLB", "Spread", sRedSox \o sMinusHalf, gMLB, Day1, Some(190)),
      Pick("NBA", "Spread", sLakers \o sMinusHalf, gLakers, Day1, Some(190)) }

InitSides ==
    /\ file \in { Stored(ps) : ps \in SeqsUpTo(SidesPool, MaxPicks) }
    /\ provider \in ProviderStates
    /\ days = 0
    /\ clock = 0
    /\ pc = "idle"
    /\ picks = <<>>
    /\ i = 0
    /\ game_id = None
    /\ game_result = None
    /\ loaded = <<>>
    /\ graded = {}
    /\ outcome = "none"
    /\ saves = 0
    /\ stable = FALSE
    /\ rerun = FALSE
    /\ ReportIdle
    /\ OtherIdle

SpecSides == InitSides /\ [][NextGrading]_vars

(***************************************************************************)
(* two update_results processes on one store                               *)
(***************************************************************************)

(* one turn of the loop of update_results on a pick, the provider and the
   day as they are: [raised, pick] *)
SettlePick(pick, prov, day) ==
    LET d   == Strptime(pick.event_details.date)
        id  == get_game_id(prov, pick.sport, SplitFirst(pick.event_details.game, sVs))
        res == get_game_results(prov, pick.sport, id.value[1])
        won == did_pick_win(pick, res.value[1])
    IN  IF ~IsPending(pick) THEN [raised |-> FALSE, pick |-> pick]
        ELSE IF ~d.ok THEN [raised |-> TRUE, pick |-> pick]
        ELSE IF InFuture(d.ord, ToOrdinal(day)) THEN [raised |-> FALSE, pick |-> pick]
        ELSE IF ~Truthy(id.value) THEN [raised |-> FALSE, pick |-> pick]
        ELSE IF ~IsFinished(res.value) THEN [raised |-> FALSE, pick |-> pick]
        ELSE IF won.raised THEN [raised |-> TRUE, pick |-> pick]
        ELSE [raised |-> FALSE, pick |-> Graded(pick, won.value)]

(* the second process: picks = get_picks(); if not picks: return *)
OLoad ==
    /\ o_pc = "idle"
    /\ o_picks' = get_picks(file)
    /\ o_pc' = IF get_picks_raises(file) THEN "crashed"
               ELSE IF get_picks(file) = <<>> THEN "done" ELSE "loop"
    /\ UNCHANGED <<file, world, updater, hist, report>>

(* the second process: its whole for loop, the provider and the day not
   changing meanwhile *)
OSettle ==
    /\ o_pc = "loop"
    /\ \A k \in DOMAIN o_picks :
           Supports(o_picks[k].sport) => ~RequestBlocks(provider)
    /\ IF \E k \in DOMAIN o_picks : SettlePick(o_picks[k], provider, today).raised
       THEN o_pc' = "crashed" /\ UNCHANGED o_picks
       ELSE /\ o_picks' = [k \in DOMAIN o_picks |->
                              SettlePick(o_picks[k], provider, today).pick]
            /\ o_pc' = "save"
    /\ UNCHANGED <<file, world, updater, hist, report>>

(* the second process: save_picks(picks), from open to close *)
OSave ==
    /\ o_pc = "save"
    /\ file' = Stored(o_picks)
    /\ o_pc' = "done"
    /\ UNCHANGED <<world, updater, hist, report, o_picks>>

InitOverlap ==
    /\ file \in { Stored(ps) : ps \in SeqsUpTo(StorePool, MaxPicks) }
    /\ provider \in ProviderStates
    /\ days = 0
    /\ clock = 0
    /\ pc = "idle"
    /\ picks = <<>>
    /\ i = 0
    /\ game_id = None
    /\ game_result = None
    /\ loaded = <<>>
    /\ graded = {}
    /\ outcome = "none"
    /\ saves = 0
    /\ stable = FALSE
    /\ rerun = FALSE
    /\ ReportIdle
    /\ OtherIdle

NextOverlap ==
    \/ Load
    \/ SkipSettled
    \/ CheckDate
    \/ FindGame
    \/ GetResult
    \/ Grade
    \/ SaveOpen
    \/ SaveDump
    \/ Exit
    \/ ProviderChange
    \/ OLoad
    \/ OSettle
    \/ OSave

SpecOverlap == InitOverlap /\ [][NextOverlap]_vars

(***************************************************************************)
(* properties                                                              *)
(***************************************************************************)

Terminal(pick) == pick.status \in {"win", "loss"}

sRedsHalf  == sReds \o <<" ", "-", "0", ".", "5">>
sRedsOne   == sReds \o <<" ", "-", "1", ".", "0">>
sSoxPlus   == sRedSox \o <<" ", "+", "1", ".", "5">>

(* a status differs between before and after only as pending -> win/loss *)
Advances(before, after) ==
    before.status # after.status =>
        before.status = "pending" /\ after.status \in {"win", "loss"}

(* C1: over any sequence of settlement runs and provider answers a pick's
   status moves only from pending to win or to loss.  In the memory of a run
   no step changes a status in any other way, a run works on what the store
   held when it started, and what a run writes to the store differs in status
   from what it loaded only by pending picks that became win or loss. *)
StatusOnlyAdvances ==
    /\ [](pc \in {"loop", "find", "result", "grade"} => file = Stored(loaded))
    /\ [][ /\ \A k \in DOMAIN picks \cap DOMAIN picks' : Advances(picks[k], picks'[k])
           /\ (file' # file /\ file'.state = "ok") =>
                 /\ Len(file'.picks) = Len(loaded)
                 /\ \A k \in DOMAIN loaded : Advances(loaded[k], file'.picks[k])
         ]_vars

(* A run has ended with its save on a store that held a pick graded win, at a
   time when the provider's revised score would grade that pick a loss, and
   the run graded another pick. *)
WitnessStatusOnlyAdvances ==
    /\ pc = "done" /\ saves = 1 /\ provider = "revised"
    /\ \E k \in DOMAIN loaded :
          /\ loaded[k].prediction = sRedsHalf
          /\ loaded[k].status = "win"
          /\ file.picks[k].status = "win"
    /\ graded # {}

(* C2: a run that starts right after a run that saved, with the provider's
   answers and the day unchanged since that first run started, grades no
   pick and saves exactly the collection it loaded, which is the collection
   the first run saved. *)
SecondRunIdentical ==
    (pc = "done" /\ saves = 1 /\ rerun) =>
        (file = Stored(loaded) /\ graded = {})

(* Such a second run has ended, on a store with a graded pick and a pick the
   provider has no game for. *)
WitnessSecondRunIdentical ==
    /\ pc = "done" /\ saves = 1 /\ rerun /\ provider = "final"
    /\ \E k \in DOMAIN loaded : Terminal(loaded[k])
    /\ \E k \in DOMAIN loaded :
          loaded[k].status = "pending" /\ loaded[k].event_details.game = gOther

(* C3: a pick graded by the run has profit_loss = stake * (odds - 1) on a win
   when odds is present (0 included), stake on a win when odds is null, and
   -stake on a loss. *)
Conservation ==
    \A k \in graded :
        /\ picks[k].status = "win" =>
              picks[k].profit_loss =
                  Some(IF picks[k].odds # None
                       THEN picks[k].stake * (picks[k].odds[1] - 100)
                       ELSE picks[k].stake * 100)
        /\ picks[k].status = "loss" =>
              picks[k].profit_loss = Some(0 - picks[k].stake * 100)

(* the (sport, bet_type) pairs the grading rules name *)
Supported(pick) ==
    \/ pick.sport = "MLB" /\ pick.bet_type = "Spread"
    \/ pick.sport = "Tennis" /\ pick.bet_type \in {"Moneyline", "Set Betting"}

(* C4: a pending pick whose (sport, bet_type) is none of MLB/Spread,
   Tennis/Moneyline, Tennis/Set Betting is left as it was loaded by every
   step of a run, also when its game was found finished. *)
UnsupportedStaysPending ==
    \A k \in DOMAIN picks :
        (loaded[k].status = "pending" /\ ~Supported(loaded[k])) =>
            picks[k] = loaded[k]

(* an MLB/Spread prediction with no space-separated line, or whose line is
   not a number *)
Malformed(pick) ==
    /\ pick.sport = "MLB" /\ pick.bet_type = "Spread"
    /\ \/ Len(RSplit1(pick.prediction)) # 2
       \/ ~FloatStr(RSplit1(pick.prediction)[2]).ok

(* C5: a malformed prediction is a failure of its pick alone: the run does
   not end on it, the pick stays pending, and a run that has passed it ends
   with the save. *)
MalformedIsNonFatal ==
    /\ ~(pc = "crashed" /\ Malformed(picks[i]))
    /\ \A k \in DOMAIN picks :
          (loaded[k].status = "pending" /\ Malformed(loaded[k])) =>
              picks[k] = loaded[k]

(* C6: a pick changes only in the grading step for it, on a result that
   get_game_results returned with status long = 'Finished'; and when the
   provider has no finished result for the id, the step that asks for the
   result leaves every pick as it was and moves to the next pick. *)
GradesOnlyFinished ==
    [][ /\ \A k \in DOMAIN picks \cap DOMAIN picks' :
              picks'[k] # picks[k] =>
                  /\ pc = "grade" /\ k = i
                  /\ game_result # None
                  /\ game_result[1].status.long = "Finished"
        /\ (pc = "result" /\ pc' # "result" /\ provider \notin {"final", "revised"}) =>
              /\ picks' = picks /\ picks[i].status = "pending"
              /\ pc' = "loop" /\ i' = i + 1
      ]_vars

(* The run asked for the result of a found game, the game was not finished,
   and the run has moved on with the pick still as loaded. *)
WitnessGradesOnlyFinished ==
    /\ pc = "loop" /\ outcome = "unfinished" /\ provider = "playing"
    /\ picks[i - 1] = loaded[i - 1]
    /\ picks[i - 1].status = "pending"

(* no game of the provider's response has the searched team in a name *)
NoMatch(pick) ==
    \A k \in DOMAIN Response(provider, pick.sport) :
        LET g    == Response(provider, pick.sport)[k]
            team == SplitFirst(pick.event_details.game, sVs)
        IN  ~Contains(team, g.teams.home.name) /\ ~Contains(team, g.teams.away.name)

(* the request made at this point of the run fails to resolve the pick *)
ResolutionFails ==
    \/ pc \in {"find", "result"} /\ provider \in {"down", "empty"}
    \/ pc = "find" /\ NoMatch(picks[i])
    \/ pc = "result" /\ provider = "playing"

(* C7: a resolver step that fails (provider down or answering with an error,
   empty result set, no game with a matching name, game not finished) raises
   nothing: the run goes on at the next pick with every pick as it was, the
   failed pick pending; and a run that reaches its save has passed every
   pick. *)
ResolutionFailureIsolated ==
    /\ [](pc \in {"save_dump", "done"} /\ picks # <<>> => i = Len(picks) + 1)
    /\ [][ (ResolutionFails /\ pc' # pc) =>
              /\ pc' = "loop" /\ i' = i + 1
              /\ picks' = picks /\ picks[i].status = "pending"
         ]_vars

(* With the provider down the search for the first pick failed, and the run
   has gone on to the second pick. *)
WitnessResolutionFailureIsolated ==
    /\ pc = "loop" /\ i = 2 /\ Len(picks) = 2
    /\ outcome = "not_found" /\ provider = "down"
    /\ picks[1].status = "pending"

(* C8: every run returns, with exactly one save made after the last pick when
   the loaded collection is not empty and no save when it is. *)
OneSavePerRun ==
    /\ pc # "crashed"
    /\ pc = "done" => saves = (IF loaded = <<>> THEN 0 ELSE 1)
    /\ pc = "save_dump" => i = Len(picks) + 1

(* date a is strictly after date b, field by field *)
DateLater(a, b) ==
    \/ a[1] > b[1]
    \/ a[1] = b[1] /\ a[2] > b[2]
    \/ a[1] = b[1] /\ a[2] = b[2] /\ a[3] > b[3]

(* C9: the date check of a pending pick sends a pick dated after today
   straight to the next pick, with no request made and no pick changed, and
   sends a pick dated today or earlier on to find_game_id; in a run during
   which the day does not change, a pick dated after today is saved as it
   was loaded. *)
FutureSkipped ==
    /\ []( (pc = "done" /\ saves = 1 /\ stable) =>
              \A k \in DOMAIN loaded :
                  (loaded[k].status = "pending"
                   /\ DateLater(loaded[k].event_details.date, today)) =>
                      (file.picks[k] = loaded[k] /\ k \notin graded) )
    /\ [][ (pc = "loop" /\ i \in DOMAIN picks /\ picks[i].status = "pending"
            /\ <<pc, i>>' # <<pc, i>>) =>
              IF DateLater(picks[i].event_details.date, today)
              THEN /\ pc' = "loop" /\ i' = i + 1 /\ outcome' = "future"
                   /\ picks' = picks
              ELSE pc' = "find" /\ i' = i
         ]_vars

(* A run during which the day did not change has ended with its save: it
   left a pick dated tomorrow pending and graded a pick dated today. *)
WitnessFutureSkipped ==
    /\ pc = "done" /\ saves = 1 /\ stable /\ provider = "final"
    /\ \E k \in DOMAIN loaded :
          /\ loaded[k].status = "pending"
          /\ DateLater(loaded[k].event_details.date, today)
          /\ file.picks[k].status = "pending"
    /\ \E k \in graded : picks[k].event_details.date = today

(* C10: the grading step of an MLB/Spread pick whose team name is in the name
   of exactly one side makes the pick a win when that side's score plus the
   spread is greater than the other side's score, and a loss otherwise, a
   spread-adjusted tie included. *)
SpreadGrading ==
    [][ (pc = "grade" /\ pc' = "loop"
         /\ picks[i].sport = "MLB" /\ picks[i].bet_type = "Spread") =>
            LET g      == game_result[1]
                team   == RSplit1(picks[i].prediction)[1]
                spread == FloatStr(RSplit1(picks[i].prediction)[2]).val
                inHome == Contains(team, g.teams.home.name)
                inAway == Contains(team, g.teams.away.name)
                home   == 10 * g.scores.home.total
                away   == 10 * g.scores.away.total
            IN  /\ (inHome /\ ~inAway) =>
                      picks'[i].status = (IF home + spread > away THEN "win" ELSE "loss")
                /\ (inAway /\ ~inHome) =>
                      picks'[i].status = (IF away + spread > home THEN "win" ELSE "loss")
      ]_vars

(* 'Reds -1.0' has been graded on Reds 5, Red Sox 4: 5 - 1.0 is not greater
   than 4, a loss. *)
WitnessSpreadGrading ==
    /\ pc = "loop" /\ outcome = "graded" /\ provider = "final"
    /\ picks[i - 1].prediction = sRedsOne
    /\ picks[i - 1].status = "loss"

(* C11: the grading step of a Tennis/Moneyline pick makes the pick a win
   when the result has a winner whose name contains the first space-separated
   token of the prediction, and a loss otherwise, a result without a winner
   included. *)
MoneylineGrading ==
    [][ (pc = "grade" /\ pc' = "loop"
         /\ picks[i].sport = "Tennis" /\ picks[i].bet_type = "Moneyline") =>
            LET winner == game_result[1].winner
                token  == SplitFirst(picks[i].prediction, <<" ">>)
                won    == winner # None /\ Contains(token, winner[1].name)
            IN  picks'[i].status = (IF won THEN "win" ELSE "loss")
      ]_vars

(* 'Djoko wins' has been graded a win on a result whose winner is N Djoko,
   and 'Murray' has been graded a loss on a result without a winner. *)
WitnessMoneylineGrading ==
    /\ pc = "loop" /\ i = 3 /\ provider = "revised"
    /\ \E k \in graded : picks[k].prediction = sDjokoWins /\ picks[k].status = "win"
    /\ \E k \in graded : picks[k].prediction = sMurray /\ picks[k].status = "loss"

(* the grading step of a Tennis/Set Betting pick whose prediction splits into
   a player and a score string *)
SetBettingStep ==
    /\ pc = "grade" /\ pc' = "loop"
    /\ picks[i].sport = "Tennis" /\ picks[i].bet_type = "Set Betting"
    /\ Len(RSplit1(picks[i].prediction)) = 2

(* C12 as stated: the pick wins iff the player matches the home side and
   'home-away' is the predicted score, or the player matches the away side
   and 'away-home' is the predicted score. *)
SetBettingEitherSide ==
    [][ SetBettingStep =>
            LET g      == game_result[1]
                player == RSplit1(picks[i].prediction)[1]
                score  == RSplit1(picks[i].prediction)[2]
                inHome == Contains(player, g.teams.home.name)
                inAway == Contains(player, g.teams.away.name)
                asHome == ScoreStr(g.scores.home.sets, g.scores.away.sets)
                asAway == ScoreStr(g.scores.away.sets, g.scores.home.sets)
                won    == (inHome /\ asHome = score) \/ (inAway /\ asAway = score)
            IN  picks'[i].status = (IF won THEN "win" ELSE "loss")
      ]_vars

(* C12: the grading step of a Tennis/Set Betting pick makes the pick a win
   iff the player matches the home side and 'home-away' is exactly the
   predicted score, or the player matches the away side but not the home side
   and 'away-home' is exactly the predicted score; a player on neither side
   is a loss. *)
SetBettingGrading ==
    [][ SetBettingStep =>
            LET g      == game_result[1]
                player == RSplit1(picks[i].prediction)[1]
                score  == RSplit1(picks[i].prediction)[2]
                inHome == Contains(player, g.teams.home.name)
                inAway == Contains(player, g.teams.away.name)
                asHome == ScoreStr(g.scores.home.sets, g.scores.away.sets)
                asAway == ScoreStr(g.scores.away.sets, g.scores.home.sets)
                won    == \/ inHome /\ asHome = score
                          \/ ~inHome /\ inAway /\ asAway = score
            IN  picks'[i].status = (IF won THEN "win" ELSE "loss")
      ]_vars

(* On R Nadal 3, N Djoko 1: 'Djoko 1-3' (away side, score turned) has been
   graded a win and 'N 1-3' (a player on both sides, read as the home side)
   a loss. *)
WitnessSetBettingGrading ==
    /\ pc = "loop" /\ i = 3 /\ provider = "final"
    /\ \E k \in graded : picks[k].prediction = sDjoko13 /\ picks[k].status = "win"
    /\ \E k \in graded : picks[k].prediction = sN13 /\ picks[k].status = "loss"

(* the positions of the provider's answer whose home or away name contains
   the team searched for the pick *)
MatchingGames(pick) ==
    LET resp == Response(provider, pick.sport)
        team == SplitFirst(pick.event_details.game, sVs)
    IN  { k \in DOMAIN resp : \/ Contains(team, resp[k].teams.home.name)
                              \/ Contains(team, resp[k].teams.away.name) }

(* C13: the resolving step of a run, the provider answering, goes on to the
   result of the first game of the answer whose home or away name contains
   the team, whatever its id, and leaves the pick as not found only when the
   answer is empty or holds no such game. *)
FirstMatchIsFound ==
    [][ (pc = "find" /\ pc' # "find" /\ picks[i].sport \in BASE_URLS
         /\ ~RequestRaises(provider)) =>
            LET resp  == Response(provider, picks[i].sport)
                found == MatchingGames(picks[i])
            IN  IF found = {}
                THEN pc' = "loop" /\ outcome' = "not_found"
                ELSE pc' = "result" /\ game_id' = Some(resp[SetMin(found)].id)
      ]_vars

(* what a load of the store has to return: the stored collection, or the
   empty sequence for a store that is absent or is not valid JSON *)
LoadRule(f) == IF f.state = "ok" THEN f.picks ELSE <<>>

(* C14: a load of the store, by a settlement run or by a report, raises
   nothing and returns the stored collection, or the empty sequence when the
   file is absent or its content is not valid JSON. *)
LoadNeverRaises ==
    [][ /\ (pc = "idle" /\ pc' # "idle") =>
               pc' # "crashed" /\ loaded' = LoadRule(file)
        /\ (rpc = "idle" /\ rpc' # "idle") =>
               rpc' # "crashed" /\ r_picks' = LoadRule(file)
      ]_vars

(* C15: a report's load taken while a settlement run is saving returns the
   whole collection of before the save or the whole collection the save
   writes. *)
SaveIsAtomic ==
    [][ (rpc = "idle" /\ rpc' # "idle" /\ pc = "save_dump") =>
            rpc' # "crashed" /\ r_picks' \in {loaded, picks}
      ]_vars

(* C16: when a settlement run is killed, the store holds the collection the
   run loaded or the collection the run has saved. *)
InterruptedRunKeepsStore ==
    pc = "killed" => file \in {Stored(loaded), Stored(picks)}

(* generate_report has printed its report *)
Reported == rpc = "done" /\ j > 0

(* the positions of the loaded picks that have a date *)
WithDate == { k \in DOMAIN r_picks : r_picks[k].event_details.date # None }

(* C17: in a weekly report, whatever the time of day it is generated at, the
   picks included are the dated picks whose date lies from the Monday of the
   current week to the Sunday after it, both days included. *)
WeeklyWindowInclusive ==
    (Reported /\ period = "weekly") =>
        \A k \in WithDate :
            LET monday == ToOrdinal(today) - Weekday(ToOrdinal(today))
                d      == ToOrdinal(r_picks[k].event_details.date)
            IN  k \in included <=> (monday <= d /\ d <= monday + 6)

(* C18: in a monthly report, whatever the time of day and the day of the
   month it is generated at, the picks included are the dated picks of the
   current calendar month, its first and last day included; in a report on
   'all' they are all the dated picks. *)
MonthlyWindowInclusive ==
    /\ (Reported /\ period = "monthly") =>
           \A k \in WithDate :
               LET date == r_picks[k].event_details.date
               IN  k \in included <=> (date[1] = today[1] /\ date[2] = today[2])
    /\ (Reported /\ period = "all") => included = WithDate

(* the sum of f over the positions S *)
RECURSIVE SumOver(_, _)
SumOver(S, f) ==
    IF S = {} THEN 0
    ELSE LET k == CHOOSE x \in S : TRUE
         IN  f[k] + SumOver(S \ {k}, f)

(* the included positions of the given status *)
IncludedAs(status) == { k \in included : r_picks[k].status = status }

(* C19: the report's wins, losses and pending are the numbers of included
   picks of status win, loss and pending, and total_staked and
   total_profit_loss are the sums of the stake and of the profit_loss of the
   included win and loss picks, pending picks adding nothing. *)
AggregatesOverIncluded ==
    LET terminal == IncludedAs("win") \cup IncludedAs("loss")
    IN  /\ wins = Cardinality(IncludedAs("win"))
        /\ losses = Cardinality(IncludedAs("loss"))
        /\ pending = Cardinality(IncludedAs("pending"))
        /\ total_staked = SumOver(terminal, [k \in terminal |-> r_picks[k].stake])
        /\ total_profit_loss =
               SumOver(terminal, [k \in terminal |-> r_picks[k].profit_loss[1]])

(* a report on a loss and a pending pick, both included: one loss, one
   pending, 10 staked, 10.00 lost *)
WitnessAggregatesOverIncluded ==
    /\ Reported /\ included = {1, 2}
    /\ losses = 1 /\ pending = 1 /\ wins = 0
    /\ total_staked = 10 /\ total_profit_loss = 0 - 1000

(* C20: the report's roi is total_profit_loss / total_staked * 100 when
   total_staked > 0 and exactly 0 when total_staked is 0, and no report ends
   with a division by zero. *)
RoiIsDefined ==
    /\ error # "ZeroDivisionError"
    /\ Reported =>
           IF total_staked > 0
           THEN roi.den # 0 /\ roi.num * total_staked = total_profit_loss * roi.den
           ELSE roi = Ratio(0, 1)

(* a report whose only included settled pick has a stake of 0: roi is 0 *)
WitnessRoiIsDefined ==
    /\ Reported /\ wins = 1 /\ losses = 0
    /\ total_staked = 0
    /\ roi = Ratio(0, 1)

(* the positions of the loaded picks whose date is a calendar day *)
Parseable ==
    { k \in DOMAIN r_picks : Strptime(r_picks[k].event_details.date).ok }

(* C21: a pick whose date is missing or is not a calendar day is not
   included in the report, and no report is ended by such a date: the report
   goes on with the remaining picks. *)
UnparseableDateExcluded ==
    /\ included \subseteq Parseable
    /\ error # "ValueError"

(* every win or loss of the collection has a profit_loss *)
TerminalHaveProfit(ps) ==
    \A k \in DOMAIN ps : ps[k].status \in {"win", "loss"} => ps[k].profit_loss # None

(* C22: in every state of settlement runs and reports on a store that began
   with pending picks, each pick with status win or loss, in a run's memory,
   in the store and in a report's memory, has a profit_loss that is not null;
   and the turn of a report's loop on a pending pick leaves total_staked and
   total_profit_loss as they were. *)
StatusProfitConsistent ==
    /\ [](/\ TerminalHaveProfit(picks)
          /\ TerminalHaveProfit(file.picks)
          /\ TerminalHaveProfit(r_picks))
    /\ [][ (rpc = "loop" /\ j' = j + 1 /\ r_picks[j].status = "pending") =>
               /\ total_staked' = total_staked
               /\ total_profit_loss' = total_profit_loss
         ]_vars

(* a report on 'all' of a store a run has saved with one pick graded a win
   and one left pending: 10 staked, the win's 9.00 of profit *)
WitnessStatusProfitConsistent ==
    /\ Reported /\ period = "all" /\ included = {1, 2}
    /\ saves = 1 /\ file = Stored(r_picks)
    /\ wins = 1 /\ pending = 1
    /\ total_staked = 10 /\ total_profit_loss = 900

(* C23: no step of generate_report, for any period, changes the store or any
   pick of the list it has loaded. *)
ReportIsReadOnly ==
    [][ (rpc' # rpc \/ j' # j) =>
            /\ file' = file
            /\ rpc # "idle" => r_picks' = r_picks
            /\ rpc = "idle" => r_picks' = reporter_get_picks(file)
      ]_vars

(* a monthly report has been printed with picks included, the store and the
   loaded list as they were before it *)
WitnessReportIsReadOnly ==
    /\ Reported /\ period = "monthly" /\ included # {}
    /\ Len(r_picks) = 2
    /\ file = Stored(r_picks)

(* update_results is inside its loop *)
InLoop == pc \in {"loop", "find", "result", "grade"}

(* C24: within a run the position in the list only moves from a pick to the
   one after it, the resolving of a pick starts only from its date check, the
   fetching of its result only from its resolving, its grading only from its
   fetched result, all for the same pick; and the result a pick is graded on
   is the one fetched for the id resolved for that pick, and only that pick
   is changed. *)
StepsInOrder ==
    [][ /\ (InLoop /\ i' # i /\ pc' # "idle") => (i' = i + 1 /\ pc' = "loop")
        /\ (InLoop /\ pc' = "loop" /\ pc # "loop") => i' = i + 1
        /\ (pc' = "find" /\ pc # "find") => (pc = "loop" /\ i' = i)
        /\ (pc' = "result" /\ pc # "result") => (pc = "find" /\ i' = i)
        /\ (pc' = "grade" /\ pc # "grade") =>
               (pc = "result" /\ i' = i /\ game_result'[1].id = game_id[1])
        /\ (InLoop /\ picks' # picks /\ pc' # "idle") =>
               /\ pc = "grade"
               /\ graded' = graded \cup {i}
               /\ \A k \in DOMAIN picks : k # i => picks'[k] = picks[k]
      ]_vars

(* the first pick has been graded, then the second, and the loop stands
   behind them *)
WitnessStepsInOrder ==
    /\ pc = "loop" /\ i = 3 /\ Len(picks) = 2
    /\ graded = {1, 2}

(* the pick with the status and profit_loss of another *)
WithGradeOf(pick, from) ==
    [pick EXCEPT !.status = from.status, !.profit_loss = from.profit_loss]

(* C25: the list a run works on has the length and the order of the list it
   loaded, equal to it at every position the run has not graded and differing
   from it at most in status and profit_loss at a graded position; and the
   store a run has saved holds exactly that list. *)
RunKeepsCollection ==
    /\ Len(picks) = Len(loaded)
    /\ \A k \in DOMAIN picks :
           IF k \in graded THEN WithGradeOf(picks[k], loaded[k]) = loaded[k]
           ELSE picks[k] = loaded[k]
    /\ (pc = "done" /\ saves = 1) => file = Stored(picks)

(* a run has saved a collection of two: the first pick skipped and saved as
   loaded, the second graded *)
WitnessRunKeepsCollection ==
    /\ pc = "done" /\ saves = 1
    /\ Len(loaded) = 2 /\ graded = {2}
    /\ file.picks[1] = loaded[1] /\ file.picks[1].status = "pending"
    /\ file.picks[2].status \in {"win", "loss"}

(* C26: the steps that call get_game_id and get_game_results, whatever they
   return, leave every pick of the run's list, the list the run loaded and
   the store as they were. *)
ResolverHasNoEffect ==
    [][ (pc \in {"find", "result"} /\ pc' # pc) =>
            picks' = picks /\ loaded' = loaded /\ file' = file
      ]_vars

(* the first pick has been left as it was, the id of the second pick's game
   has been resolved and its finished result fetched: list and store are as
   loaded *)
WitnessResolverHasNoEffect ==
    /\ pc = "grade" /\ i = 2
    /\ game_id # None /\ game_result # None
    /\ picks = loaded /\ file = Stored(loaded)

(* C27: a run that has entered its loop reaches the end of its save, also
   when the provider stops answering. *)
RunTerminates == (pc = "loop") ~> (pc = "done")

(* C28: the grading step of an MLB/Spread pick whose prediction is a team
   and a decimal spread always decides: the team's score is the home score
   when the team's name is in the home team's name, also when it is in the
   away team's name too, and the away score in every other case, also when
   the name is in neither; the pick wins iff that score plus the spread is
   greater than the score of the other side. *)
SpreadSideAlwaysChosen ==
    [][ (/\ pc = "grade" /\ pc' # pc
         /\ picks[i].sport = "MLB" /\ picks[i].bet_type = "Spread"
         /\ Len(RSplit1(picks[i].prediction)) = 2
         /\ FloatStr(RSplit1(picks[i].prediction)[2]).ok) =>
            LET g      == game_result[1]
                team   == RSplit1(picks[i].prediction)[1]
                spread == FloatStr(RSplit1(picks[i].prediction)[2]).val
                home   == 10 * g.scores.home.total
                away   == 10 * g.scores.away.total
                inHome == Contains(team, g.teams.home.name)
                won    == IF inHome THEN home + spread > away
                          ELSE away + spread > home
            IN  /\ pc' = "loop"
                /\ picks'[i].status = (IF won THEN "win" ELSE "loss")
      ]_vars

(* On Reds 5, Red Sox 4: 'Red -0.5', a name of both sides, has been graded a
   win as the home side, and 'Mets -0.5', a name of neither, a loss as the
   away side. *)
WitnessSpreadSideAlwaysChosen ==
    /\ pc = "loop" /\ i = 3 /\ provider = "final"
    /\ \E k \in graded : picks[k].prediction = sRed \o sMinusHalf
                         /\ picks[k].status = "win"
    /\ \E k \in graded : picks[k].prediction = sMets \o sMinusHalf
                         /\ picks[k].status = "loss"

(* every pick of the collection whose sport has no provider is pending *)
UnsupportedSportPending(ps) ==
    \A k \in DOMAIN ps : ps[k].sport \notin {"MLB", "Tennis"} => ps[k].status = "pending"

(* C29: a pick whose sport is neither MLB nor Tennis is pending in every
   state of every run, in the run's list and in the store, and the step that
   resolves its game ends as not found without a request and moves on to the
   next pick. *)
UnsupportedSportUntouched ==
    /\ [](UnsupportedSportPending(picks) /\ UnsupportedSportPending(file.picks))
    /\ [][ (pc = "find" /\ pc' # pc /\ picks[i].sport \notin {"MLB", "Tennis"}) =>
               /\ pc' = "loop"
               /\ outcome' = "no_request"
               /\ picks' = picks
         ]_vars

(* a run has saved a store whose NBA pick it passed without a request, the
   provider down, and left pending *)
WitnessUnsupportedSportUntouched ==
    /\ pc = "done" /\ saves = 1 /\ provider = "down"
    /\ outcome = "no_request"
    /\ \E k \in DOMAIN file.picks :
           file.picks[k].sport = "NBA" /\ file.picks[k].status = "pending"

(* C30: with two runs on one store, a save that replaces a complete store
   keeps every pick the store holds as win or loss at its position and with
   its status. *)
PersistedGradeKept ==
    [][ (file.state = "ok" /\ file'.state = "ok") =>
            \A k \in DOMAIN file.picks :
                file.picks[k].status \in {"win", "loss"} =>
                    /\ k \in DOMAIN file'.picks
                    /\ file'.picks[k].status = file.picks[k].status
      ]_vars

====
